---- MODULE Spec2Model ----
(***************************************************************************)
(* Model of package roles (pkg/roles/permission.go): the Permission        *)
(* struct, its builders Allow and Deny, Concat, and the decision function  *)
(* HasPermission.                                                          *)
(*                                                                         *)
(* Go values are kept as the code sees them:                               *)
(*   - a []string is a record [nil, elems]: a nil slice and an empty       *)
(*     non-nil slice are different values (the code tests "== nil");       *)
(*   - a map[PermissionMode][]string is a reference: a Permission holds    *)
(*     the index of its map in the heap variable maps, and the map is a    *)
(*     function whose DOMAIN is the set of keys present;                   *)
(*   - a *Permission is an index into perms, or NilPermission.             *)
(***************************************************************************)
EXTENDS Integers, Sequences, FiniteSets, TLC

\* ---------------------------------------------------------------- bounds
\* Number of operations (builder calls, merges, decisions) in one run.
MaxOps == 3

\* ------------------------------------------------------------- constants
Create == "create"
Read == "read"
Update == "update"
Delete == "delete"
CRUD == "crud"

\* The four concrete modes and the aggregate one.
ConcreteModes == {Create, Read, Update, Delete}
PermissionMode == ConcreteModes \cup {CRUD}

\* The reserved wildcard role name and the default scope marker.
Anyone == "*"
Global == "global"

\* Scope markers (values of the *Role field) of the policies built at start.
ScopeA == "scopeA"
ScopeB == "scopeB"

\* A nil *Permission.
NilPermission == 0

\* ---------------------------------------------------------------- inputs
\* Role-name argument lists handed to Allow and Deny (variadic, may be empty).
RoleArgs == { <<>>, <<Anyone>>, <<"admin">>, <<"admin", "intern">> }

\* Actor values: a role-name string, a Roler (with what GetRoles returns),
\* or a value of any other dynamic type.
StringActor(name) == [kind |-> "string", name |-> name, roles |-> <<>>]
RolerActor(names) == [kind |-> "roler", name |-> "", roles |-> names]
OtherActor == [kind |-> "other", name |-> "", roles |-> <<>>]

\* Actor lists handed to HasPermission (variadic, may be empty).
ActorLists ==
  { <<>>,
    <<StringActor("admin")>>,
    <<StringActor("intern")>>,
    <<StringActor("guest")>>,
    <<StringActor(Anyone)>>,
    <<StringActor("guest"), StringActor(Anyone)>>,
    <<RolerActor(<<"guest", "intern">>)>>,
    <<RolerActor(<<>>), StringActor("admin")>>,
    <<OtherActor>>,
    <<StringActor("admin"), OtherActor>>,
    <<OtherActor, StringActor(Anyone)>> }

\* ----------------------------------------------------------------- state
VARIABLES
  perms,   \* heap of Permission structs: [Role, AllowedRoles, DeniedRoles]
  maps,    \* heap of maps: maps[i] is a function PermissionMode -> slice
  last,    \* the last call: its name, arguments and return value
  ops,     \* number of calls made
  inflight \* the builder call a writer goroutine is in the middle of

vars == <<perms, maps, last, ops, inflight>>

\* ---------------------------------------------------------------- slices
NilSlice == [nil |-> TRUE, elems |-> <<>>]
EmptySlice == [nil |-> FALSE, elems |-> <<>>]

\* append(s, xs...): with nothing to append the slice comes back as it is
\* (nil stays nil); otherwise the result is non-nil.
Append2(s, xs) ==
  IF Len(xs) = 0 THEN s
  ELSE [nil |-> FALSE, elems |-> s.elems \o xs]

\* m[mode] of a Go map: the zero value (nil slice) for a missing key.
Lookup(m, mode) == IF mode \in DOMAIN m THEN m[mode] ELSE NilSlice

\* m[mode] = v of a Go map.
Store(m, mode, v) ==
  [k \in (DOMAIN m) \cup {mode} |-> IF k = mode THEN v ELSE m[k]]

\* The empty map literal map[PermissionMode][]string{}.
EmptyMap == [k \in {} |-> NilSlice]

\* A nil *Resource, and a Resource with its Permission field (maybe nil).
NilResource == [nil |-> TRUE, Permission |-> NilPermission]
ResourceWith(p) == [nil |-> FALSE, Permission |-> p]

\* A nil *Context, and a Context with its Roles.
NilContext == [nil |-> TRUE, Roles |-> <<>>]
ContextWith(roles) == [nil |-> FALSE, Roles |-> roles]

\* The contexts handed to Resource.HasPermission.
Contexts ==
  { NilContext, ContextWith(<<>>), ContextWith(<<"admin">>),
    ContextWith(<<"guest", "intern">>), ContextWith(<<Anyone>>) }

NoCall == [op |-> "none", p |-> 0, q |-> 0, mode |-> "", roles |-> <<>>,
           actors |-> <<>>, ret |-> 0, res |-> NilResource,
           context |-> NilContext]

\* No builder call is in progress.
NoWrite == [op |-> "none", p |-> 0, roles |-> <<>>, todo |-> <<>>,
            crud |-> FALSE, fresh |-> FALSE]

Init ==
  /\ perms = << [Role |-> ScopeA, AllowedRoles |-> 1, DeniedRoles |-> 2],
                [Role |-> ScopeB, AllowedRoles |-> 3, DeniedRoles |-> 4] >>
  /\ maps = << EmptyMap, EmptyMap, EmptyMap, EmptyMap >>
  /\ last = NoCall
  /\ ops = 0
  /\ inflight = NoWrite

\* ------------------------------------------------------------ operations
\* Variant of includeRoles without the Anyone shortcut.
includeRoles_NoWildcard(roles, values) ==
  \E i \in 1..Len(roles) : \E j \in 1..Len(values) : values[j] = roles[i]

\* Variant of includeRoles that tests the values, not the roles, for Anyone.
includeRoles_WildcardValue(roles, values) ==
  \/ \E j \in 1..Len(values) : values[j] = Anyone
  \/ \E i \in 1..Len(roles) : \E j \in 1..Len(values) : values[j] = roles[i]

\* includeRoles(roles, values): some role of the first list is Anyone or
\* equals a value of the second list.  HasPermission passes the policy's
\* list as roles and the actors' names as values.
includeRoles(roles, values) ==
  \E i \in 1..Len(roles) :
    \/ roles[i] = Anyone
    \/ \E j \in 1..Len(values) : values[j] = roles[i]

\* One non-aggregate Allow or Deny on the map m: create the entry as an
\* empty slice when m[mode] is nil, then append the roles.
AddRoles(m, mode, roles) ==
  LET m1 == IF Lookup(m, mode).nil THEN Store(m, mode, EmptySlice) ELSE m
  IN Store(m1, mode, Append2(Lookup(m1, mode), roles))

\* Variant of Allow without the expansion of the aggregate mode.
Allow_NoExpand(ms, permission, mode, roles) ==
  [ms EXCEPT ![permission.AllowedRoles] = AddRoles(@, mode, roles)]

\* permission.Allow(mode, roles...): the heap of maps after the call.
RECURSIVE Allow(_, _, _, _)
Allow(ms, permission, mode, roles) ==
  IF mode = CRUD
  THEN Allow(Allow(Allow(Allow(ms, permission, Create, roles),
                         permission, Update, roles),
                   permission, Read, roles),
             permission, Delete, roles)
  ELSE [ms EXCEPT ![permission.AllowedRoles] = AddRoles(@, mode, roles)]

\* permission.Deny(mode, roles...): the heap of maps after the call.
RECURSIVE Deny(_, _, _, _)
Deny(ms, permission, mode, roles) ==
  IF mode = CRUD
  THEN Deny(Deny(Deny(Deny(ms, permission, Create, roles),
                      permission, Update, roles),
                 permission, Read, roles),
            permission, Delete, roles)
  ELSE [ms EXCEPT ![permission.DeniedRoles] = AddRoles(@, mode, roles)]

\* Variant of appendRoles that assigns the operand's lists instead of
\* appending them.
appendRoles_Overwrite(result, ps, ms, p) ==
  IF p = NilPermission THEN result
  ELSE
    LET denied == ms[ps[p].DeniedRoles]
        allowed == ms[ps[p].AllowedRoles]
    IN [ Role |-> ps[p].Role,
         DeniedRoles |->
           [k \in (DOMAIN result.DeniedRoles) \cup (DOMAIN denied) |->
              IF k \in DOMAIN denied THEN denied[k]
              ELSE result.DeniedRoles[k]],
         AllowedRoles |->
           [k \in (DOMAIN result.AllowedRoles) \cup (DOMAIN allowed) |->
              IF k \in DOMAIN allowed THEN allowed[k]
              ELSE result.AllowedRoles[k]] ]

\* The closure appendRoles of Concat, applied to the local result (whose
\* maps are held by value until the result escapes) and the operand p.
appendRoles(result, ps, ms, p) ==
  IF p = NilPermission THEN result
  ELSE
    LET denied == ms[ps[p].DeniedRoles]
        allowed == ms[ps[p].AllowedRoles]
    IN [ Role |-> ps[p].Role,
         DeniedRoles |->
           [k \in (DOMAIN result.DeniedRoles) \cup (DOMAIN denied) |->
              IF k \in DOMAIN denied
              THEN Append2(Lookup(result.DeniedRoles, k), denied[k].elems)
              ELSE result.DeniedRoles[k]],
         AllowedRoles |->
           [k \in (DOMAIN result.AllowedRoles) \cup (DOMAIN allowed) |->
              IF k \in DOMAIN allowed
              THEN Append2(Lookup(result.AllowedRoles, k), allowed[k].elems)
              ELSE result.AllowedRoles[k]] ]

\* Variant of Concat that, given a nil argument, returns a copy of the
\* receiver's struct, which holds the receiver's own maps.
Concat_Shared(ps, ms, permission, newPermission) ==
  IF newPermission = NilPermission /\ permission # NilPermission
  THEN [ perms |-> Append(ps, ps[permission]), maps |-> ms ]
  ELSE
    LET result0 == [Role |-> Global, AllowedRoles |-> EmptyMap,
                    DeniedRoles |-> EmptyMap]
        result1 == appendRoles(result0, ps, ms, newPermission)
        result2 == appendRoles(result1, ps, ms, permission)
    IN [ perms |-> Append(ps, [Role |-> result2.Role,
                                AllowedRoles |-> Len(ms) + 1,
                                DeniedRoles |-> Len(ms) + 2]),
         maps |-> ms \o << result2.AllowedRoles, result2.DeniedRoles >> ]

\* Variant of Concat that applies the receiver first and the argument last.
Concat_ArgumentLast(ps, ms, permission, newPermission) ==
  LET result0 == [Role |-> Global, AllowedRoles |-> EmptyMap,
                  DeniedRoles |-> EmptyMap]
      result1 == appendRoles(result0, ps, ms, permission)
      result2 == appendRoles(result1, ps, ms, newPermission)
  IN [ perms |-> Append(ps, [Role |-> result2.Role,
                              AllowedRoles |-> Len(ms) + 1,
                              DeniedRoles |-> Len(ms) + 2]),
       maps |-> ms \o << result2.AllowedRoles, result2.DeniedRoles >> ]

\* permission.Concat(newPermission): the heaps after the call; the new
\* Permission is the last element of perms and owns two new maps.
Concat(ps, ms, permission, newPermission) ==
  LET result0 == [Role |-> Global, AllowedRoles |-> EmptyMap,
                  DeniedRoles |-> EmptyMap]
      result1 == appendRoles(result0, ps, ms, newPermission)
      result2 == appendRoles(result1, ps, ms, permission)
  IN [ perms |-> Append(ps, [Role |-> result2.Role,
                              AllowedRoles |-> Len(ms) + 1,
                              DeniedRoles |-> Len(ms) + 2]),
       maps |-> ms \o << result2.AllowedRoles, result2.DeniedRoles >> ]

\* Variant of roleNames that skips an actor of an unknown type.
RECURSIVE roleNames_Skip(_, _, _)
roleNames_Skip(roles, i, acc) ==
  IF i > Len(roles) THEN [ok |-> TRUE, names |-> acc]
  ELSE IF roles[i].kind = "string"
       THEN roleNames_Skip(roles, i + 1, Append(acc, roles[i].name))
  ELSE IF roles[i].kind = "roler"
       THEN roleNames_Skip(roles, i + 1, acc \o roles[i].roles)
  ELSE roleNames_Skip(roles, i + 1, acc)

\* The first loop of HasPermission: the role names of the actors, or
\* ok = FALSE when an actor is neither a string nor a Roler.
RECURSIVE roleNames(_, _, _)
roleNames(roles, i, acc) ==
  IF i > Len(roles) THEN [ok |-> TRUE, names |-> acc]
  ELSE IF roles[i].kind = "string"
       THEN roleNames(roles, i + 1, Append(acc, roles[i].name))
  ELSE IF roles[i].kind = "roler"
       THEN roleNames(roles, i + 1, acc \o roles[i].roles)
  ELSE [ok |-> FALSE, names |-> acc]

\* Variant of HasPermission that consults the allowed list before the
\* denied list.
HasPermission_AllowFirst(ms, permission, mode, roles) ==
  LET r == roleNames(roles, 1, <<>>)
      DeniedRoles == ms[permission.DeniedRoles]
      AllowedRoles == ms[permission.AllowedRoles]
  IN IF ~r.ok THEN FALSE
     ELSE IF /\ ~Lookup(AllowedRoles, mode).nil
             /\ includeRoles(Lookup(AllowedRoles, mode).elems, r.names)
          THEN TRUE
     ELSE IF /\ Cardinality(DOMAIN DeniedRoles) # 0
             /\ ~Lookup(DeniedRoles, mode).nil
             /\ includeRoles(Lookup(DeniedRoles, mode).elems, r.names)
          THEN FALSE
     ELSE IF Cardinality(DOMAIN AllowedRoles) = 0 THEN TRUE
     ELSE FALSE

\* Variant of HasPermission without the return for an empty allowed map.
HasPermission_NoDefault(ms, permission, mode, roles) ==
  LET r == roleNames(roles, 1, <<>>)
      DeniedRoles == ms[permission.DeniedRoles]
      AllowedRoles == ms[permission.AllowedRoles]
  IN IF ~r.ok THEN FALSE
     ELSE IF /\ Cardinality(DOMAIN DeniedRoles) # 0
             /\ ~Lookup(DeniedRoles, mode).nil
             /\ includeRoles(Lookup(DeniedRoles, mode).elems, r.names)
          THEN FALSE
     ELSE IF /\ ~Lookup(AllowedRoles, mode).nil
             /\ includeRoles(Lookup(AllowedRoles, mode).elems, r.names)
          THEN TRUE
     ELSE FALSE

\* Variant of HasPermission that allows by default per action: an action
\* without an allowed entry is permitted.
HasPermission_PerAction(ms, permission, mode, roles) ==
  LET r == roleNames(roles, 1, <<>>)
      DeniedRoles == ms[permission.DeniedRoles]
      AllowedRoles == ms[permission.AllowedRoles]
  IN IF ~r.ok THEN FALSE
     ELSE IF /\ Cardinality(DOMAIN DeniedRoles) # 0
             /\ ~Lookup(DeniedRoles, mode).nil
             /\ includeRoles(Lookup(DeniedRoles, mode).elems, r.names)
          THEN FALSE
     ELSE IF Lookup(AllowedRoles, mode).nil THEN TRUE
     ELSE IF includeRoles(Lookup(AllowedRoles, mode).elems, r.names)
          THEN TRUE
     ELSE FALSE

\* permission.HasPermission(mode, roles...) on the struct value permission.
HasPermission(ms, permission, mode, roles) ==
  LET r == roleNames(roles, 1, <<>>)
      DeniedRoles == ms[permission.DeniedRoles]
      AllowedRoles == ms[permission.AllowedRoles]
  IN IF ~r.ok THEN FALSE
     ELSE IF /\ Cardinality(DOMAIN DeniedRoles) # 0
             /\ ~Lookup(DeniedRoles, mode).nil
             /\ includeRoles(Lookup(DeniedRoles, mode).elems, r.names)
          THEN FALSE
     ELSE IF Cardinality(DOMAIN AllowedRoles) = 0 THEN TRUE
     ELSE IF /\ ~Lookup(AllowedRoles, mode).nil
             /\ includeRoles(Lookup(AllowedRoles, mode).elems, r.names)
          THEN TRUE
     ELSE FALSE

\* The loop of Resource.HasPermission: the context's roles, one by one, as
\* interface values holding strings.
RECURSIVE contextActors(_, _, _)
contextActors(contextRoles, i, acc) ==
  IF i > Len(contextRoles) THEN acc
  ELSE contextActors(contextRoles, i + 1,
                     Append(acc, StringActor(contextRoles[i])))

\* Variant of Resource.HasPermission that hands no roles to the policy.
ResourceHasPermission_NoRoles(ps, ms, res, mode, context) ==
  IF res.nil \/ res.Permission = NilPermission THEN TRUE
  ELSE IF context.nil THEN "panic"
  ELSE HasPermission(ms, ps[res.Permission], mode, <<>>)

\* res.HasPermission(mode, context): true, false, or "panic" when the roles
\* of a nil context are read.
ResourceHasPermission(ps, ms, res, mode, context) ==
  IF res.nil \/ res.Permission = NilPermission THEN TRUE
  ELSE IF context.nil THEN "panic"
  ELSE HasPermission(ms, ps[res.Permission], mode,
                     contextActors(context.Roles, 1, <<>>))

\* --------------------------------------------------------------- actions
Pointers == 1..Len(perms)

AllowAct(p, mode, roles) ==
  /\ ops < MaxOps
  /\ maps' = Allow(maps, perms[p], mode, roles)
  /\ last' = [NoCall EXCEPT !.op = "Allow", !.p = p, !.mode = mode,
                            !.roles = roles, !.ret = p]
  /\ ops' = ops + 1
  /\ UNCHANGED <<perms, inflight>>

DenyAct(p, mode, roles) ==
  /\ ops < MaxOps
  /\ maps' = Deny(maps, perms[p], mode, roles)
  /\ last' = [NoCall EXCEPT !.op = "Deny", !.p = p, !.mode = mode,
                            !.roles = roles, !.ret = p]
  /\ ops' = ops + 1
  /\ UNCHANGED <<perms, inflight>>

ConcatAct(p, q) ==
  /\ ops < MaxOps
  /\ LET h == Concat(perms, maps, p, q)
     IN /\ perms' = h.perms
        /\ maps' = h.maps
        /\ last' = [NoCall EXCEPT !.op = "Concat", !.p = p, !.q = q,
                                  !.ret = Len(h.perms)]
  /\ ops' = ops + 1
  /\ UNCHANGED inflight

HasPermissionAct(p, mode, actors) ==
  /\ ops < MaxOps
  /\ last' = [NoCall EXCEPT !.op = "HasPermission", !.p = p, !.mode = mode,
                            !.actors = actors,
                            !.ret = HasPermission(maps, perms[p], mode, actors)]
  /\ ops' = ops + 1
  /\ UNCHANGED <<perms, maps, inflight>>

Next ==
  \/ \E p \in Pointers, mode \in PermissionMode, roles \in RoleArgs :
       AllowAct(p, mode, roles)
  \/ \E p \in Pointers, mode \in PermissionMode, roles \in RoleArgs :
       DenyAct(p, mode, roles)
  \/ \E p, q \in Pointers \cup {NilPermission} : ConcatAct(p, q)
  \/ \E p \in Pointers, mode \in PermissionMode, actors \in ActorLists :
       HasPermissionAct(p, mode, actors)

Spec == Init /\ [][Next]_vars

\* The resources that can exist: none, one without a policy, one per policy.
Resources ==
  { NilResource } \cup { ResourceWith(p) : p \in Pointers \cup {NilPermission} }

ResourceHasPermissionAct(res, mode, context) ==
  /\ ops < MaxOps
  /\ last' = [NoCall EXCEPT !.op = "Resource.HasPermission", !.res = res,
                            !.mode = mode, !.context = context,
                            !.ret = ResourceHasPermission(perms, maps, res,
                                                          mode, context)]
  /\ ops' = ops + 1
  /\ UNCHANGED <<perms, maps, inflight>>

\* A resource's policy is built and merged, and the resource is asked.
NextResource ==
  \/ \E p \in Pointers, mode \in PermissionMode, roles \in RoleArgs :
       AllowAct(p, mode, roles)
  \/ \E p \in Pointers, mode \in PermissionMode, roles \in RoleArgs :
       DenyAct(p, mode, roles)
  \/ \E p, q \in Pointers \cup {NilPermission} : ConcatAct(p, q)
  \/ \E res \in Resources, mode \in PermissionMode, context \in Contexts :
       ResourceHasPermissionAct(res, mode, context)

SpecResource == Init /\ [][NextResource]_vars

\* ------------------------------------------- a writer and a reader goroutine
\* The package has no synchronization.  A writer goroutine makes builder
\* calls one after the other; a call with the aggregate mode is the chain of
\* four calls, each one map write.  A reader goroutine calls HasPermission at
\* any point.

\* Variant of WriteSteps in which a builder call is a single step.
WriteSteps_Atomic(mode) == <<mode>>

\* The per-action calls a builder call makes, in the order the code chains
\* them.
WriteSteps(mode) ==
  IF mode = CRUD THEN <<Create, Update, Read, Delete>> ELSE <<mode>>

\* The policies the two goroutines share: the one built under ScopeA.
Shared == { p \in Pointers : perms[p].Role = ScopeA }

\* The runtime has stopped the program on a concurrent map read and write.
Crashed == last.op = "fatal error"

\* The writer enters Allow or Deny.
BeginAct(op, p, mode, roles) ==
  /\ ~Crashed
  /\ ops < MaxOps
  /\ inflight = NoWrite
  /\ inflight' = [op |-> op, p |-> p, roles |-> roles,
                  todo |-> WriteSteps(mode), crud |-> mode = CRUD,
                  fresh |-> DOMAIN maps[perms[p].AllowedRoles] = {}]
  /\ last' = [NoCall EXCEPT !.op = "begin", !.p = p, !.mode = mode,
                            !.roles = roles]
  /\ ops' = ops + 1
  /\ UNCHANGED <<perms, maps>>

\* The writer makes the next per-action call of the builder call it is in;
\* after the last one the builder call returns.
StepAct ==
  /\ ~Crashed
  /\ inflight # NoWrite
  /\ LET mode == Head(inflight.todo)
         rest == Tail(inflight.todo)
     IN /\ maps' = IF inflight.op = "Allow"
                   THEN Allow(maps, perms[inflight.p], mode, inflight.roles)
                   ELSE Deny(maps, perms[inflight.p], mode, inflight.roles)
        /\ inflight' = IF rest = <<>> THEN NoWrite
                       ELSE [inflight EXCEPT !.todo = rest]
        /\ last' = [NoCall EXCEPT
                      !.op = IF rest = <<>> THEN inflight.op ELSE "step",
                      !.p = inflight.p,
                      !.mode = IF rest = <<>> /\ inflight.crud THEN CRUD
                               ELSE mode,
                      !.roles = inflight.roles,
                      !.ret = inflight.p]
  /\ UNCHANGED <<perms, ops>>

\* The reader's HasPermission runs between two steps of the writer.
ReadAct(p, mode, actors) ==
  /\ ~Crashed
  /\ HasPermissionAct(p, mode, actors)

\* The reader's HasPermission overlaps a map write of the writer on the same
\* policy: a data race.  The runtime may stop the program, or the call
\* returns either value.
RacingReadAct(p, mode, outcome) ==
  /\ ~Crashed
  /\ ops < MaxOps
  /\ inflight # NoWrite
  /\ inflight.p = p
  /\ last' = IF outcome = "fatal error"
             THEN [NoCall EXCEPT !.op = "fatal error", !.p = p, !.mode = mode]
             ELSE [NoCall EXCEPT !.op = "HasPermission.race", !.p = p,
                                 !.mode = mode, !.ret = outcome = "true"]
  /\ ops' = ops + 1
  /\ UNCHANGED <<perms, maps, inflight>>

NextConcurrent ==
  \/ \E op \in {"Allow", "Deny"}, p \in Shared, mode \in PermissionMode,
        roles \in RoleArgs : BeginAct(op, p, mode, roles)
  \/ StepAct
  \/ \E p \in Shared, mode \in PermissionMode, actors \in ActorLists :
       ReadAct(p, mode, actors)
  \/ \E p \in Shared, mode \in PermissionMode,
        outcome \in {"true", "false", "fatal error"} :
       RacingReadAct(p, mode, outcome)

SpecConcurrent == Init /\ [][NextConcurrent]_vars

\* ------------------------------------------------- vocabulary of the claims
\* The set of elements of a sequence.
Names(s) == { s[i] : i \in 1..Len(s) }

\* The role names the actors of a list hold.
HeldNames(actors) ==
  UNION { IF a.kind = "string" THEN {a.name}
          ELSE IF a.kind = "roler" THEN Names(a.roles)
          ELSE {} : a \in Names(actors) }

\* Every actor of the list is a role-name string or a Roler.
WellFormed(actors) ==
  \A i \in 1..Len(actors) : actors[i].kind \in {"string", "roler"}

\* The allowed and denied maps of the policy at pointer p.
AllowedOf(p) == maps[perms[p].AllowedRoles]
DeniedOf(p) == maps[perms[p].DeniedRoles]

\* The role names a map records for a mode (none without an entry).
ListNames(m, mode) ==
  IF mode \in DOMAIN m THEN Names(m[mode].elems) ELSE {}

\* A recorded list matches the actors: it holds Anyone, or a name they hold.
Matches(list, held) == Anyone \in list \/ list \cap held # {}

\* The last call was a decision.
Decided == last.op = "HasPermission"

\* ----------------------------------------------------------------- claims
\* C1: deny overrides allow.  For every reachable policy, concrete action and
\* actor list: when the denied list of the action holds Anyone or a role name
\* held by an actor, HasPermission returns false, whatever is allowed.
C1_DenyOverridesAllow ==
  (/\ Decided
   /\ last.mode \in ConcreteModes
   /\ Matches(ListNames(DeniedOf(last.p), last.mode), HeldNames(last.actors)))
  => last.ret = FALSE

\* C1 witness: a decision refused by the denied list although the allowed
\* list of the same action matches the same actors.
C1_Witness ==
  /\ Decided
  /\ last.mode \in ConcreteModes
  /\ WellFormed(last.actors)
  /\ Matches(ListNames(DeniedOf(last.p), last.mode), HeldNames(last.actors))
  /\ Matches(ListNames(AllowedOf(last.p), last.mode), HeldNames(last.actors))
  /\ last.ret = FALSE

\* C2: default allow.  While the allowed map of a policy is entirely empty,
\* HasPermission on role-name actors returns true unless the denied list of
\* the action matches the actors; with both maps empty it returns true.
C2_DefaultAllow ==
  (/\ Decided
   /\ DOMAIN AllowedOf(last.p) = {}
   /\ \A i \in 1..Len(last.actors) : last.actors[i].kind = "string")
  => /\ last.ret =
          ~Matches(ListNames(DeniedOf(last.p), last.mode), HeldNames(last.actors))
     /\ (DOMAIN DeniedOf(last.p) = {} => last.ret = TRUE)

\* C2 witness: a policy with a non-empty denied list for the action and no
\* Allow call permits an actor the list does not name.
C2_Witness ==
  /\ Decided
  /\ DOMAIN AllowedOf(last.p) = {}
  /\ Len(last.actors) > 0
  /\ \A i \in 1..Len(last.actors) : last.actors[i].kind = "string"
  /\ ListNames(DeniedOf(last.p), last.mode) # {}
  /\ last.ret = TRUE

\* C3: allow-list mode.  After an Allow call the allowed map of the policy is
\* non-empty (also with zero role names); and once the allowed map is
\* non-empty (also through Concat), HasPermission for a concrete action
\* returns true only if the action's own allowed list matches the actors, and
\* false for an action without an allowed entry.
C3_AllowListMode ==
  /\ (last.op = "Allow" => DOMAIN AllowedOf(last.p) # {})
  /\ (/\ Decided
      /\ last.mode \in ConcreteModes
      /\ DOMAIN AllowedOf(last.p) # {})
     => /\ (last.ret = TRUE =>
              Matches(ListNames(AllowedOf(last.p), last.mode),
                      HeldNames(last.actors)))
        /\ (last.mode \notin DOMAIN AllowedOf(last.p) => last.ret = FALSE)

\* C3 witness: a policy made by Concat whose only allowed entry came from an
\* Allow with zero role names refuses an action that has no entry.
C3_Witness ==
  /\ Decided
  /\ last.p > 2
  /\ last.mode \in ConcreteModes
  /\ WellFormed(last.actors)
  /\ DOMAIN AllowedOf(last.p) # {}
  /\ \A k \in DOMAIN AllowedOf(last.p) : AllowedOf(last.p)[k].elems = <<>>
  /\ last.mode \notin DOMAIN AllowedOf(last.p)
  /\ DOMAIN DeniedOf(last.p) = {}
  /\ last.ret = FALSE

SameMembership(m1, m2) ==
  /\ DOMAIN m1 = DOMAIN m2
  /\ \A k \in DOMAIN m1 : Names(m1[k].elems) = Names(m2[k].elems)

\* The maps of an operand of Concat; a nil operand has no rules.
AllowedOrNone(p) == IF p = NilPermission THEN EmptyMap ELSE AllowedOf(p)
DeniedOrNone(p) == IF p = NilPermission THEN EmptyMap ELSE DeniedOf(p)

\* The map references held by the policies of a heap.
MapRefs(ps) ==
  { ps[i].AllowedRoles : i \in 1..Len(ps) } \cup
  { ps[i].DeniedRoles : i \in 1..Len(ps) }

\* C6: Allow(crud, roles) leaves the maps as the four calls Allow(create),
\* Allow(read), Allow(update), Allow(delete) with the same roles would (same
\* keys, same role names per key) and creates no entry under the crud key;
\* the same for Deny.
C6_CrudExpansion ==
  [][ /\ (last'.op = "Allow" /\ last'.mode = CRUD) =>
           LET perm == perms[last'.p]
               r == last'.roles
               four == Allow(Allow(Allow(Allow(maps, perm, Create, r),
                                         perm, Read, r),
                                   perm, Update, r),
                             perm, Delete, r)
           IN \A i \in 1..Len(maps') :
                /\ SameMembership(maps'[i], four[i])
                /\ CRUD \notin DOMAIN maps'[i]
      /\ (last'.op = "Deny" /\ last'.mode = CRUD) =>
           LET perm == perms[last'.p]
               r == last'.roles
               four == Deny(Deny(Deny(Deny(maps, perm, Create, r),
                                      perm, Read, r),
                                 perm, Update, r),
                            perm, Delete, r)
           IN \A i \in 1..Len(maps') :
                /\ SameMembership(maps'[i], four[i])
                /\ CRUD \notin DOMAIN maps'[i] ]_vars

\* C6 witness: Allow(crud, roles) with some roles has acted on a policy that
\* already had an allowed entry, and all four actions now list the roles.
C6_Witness ==
  /\ last.op = "Allow"
  /\ last.mode = CRUD
  /\ last.roles # <<>>
  /\ DOMAIN AllowedOf(last.p) = ConcreteModes
  /\ \A k \in ConcreteModes :
       Names(last.roles) \subseteq ListNames(AllowedOf(last.p), k)
  /\ \E k \in ConcreteModes :
       ListNames(AllowedOf(last.p), k) # Names(last.roles)

\* C7: Concat is a union.  Per action the result's allowed and denied names
\* are the union of the operands' (a nil operand has none), an action has an
\* entry in the result iff it has one in an operand, and the merge the other
\* way round has the same membership and gives the same decisions.
C7_ConcatUnion ==
  last.op = "Concat" =>
    LET r == last.ret
        h == Concat(perms, maps, last.q, last.p)
        r2 == Len(h.perms)
    IN /\ DOMAIN AllowedOf(r) =
            DOMAIN AllowedOrNone(last.p) \cup DOMAIN AllowedOrNone(last.q)
       /\ DOMAIN DeniedOf(r) =
            DOMAIN DeniedOrNone(last.p) \cup DOMAIN DeniedOrNone(last.q)
       /\ \A k \in PermissionMode :
            /\ ListNames(AllowedOf(r), k) =
                 ListNames(AllowedOrNone(last.p), k) \cup
                 ListNames(AllowedOrNone(last.q), k)
            /\ ListNames(DeniedOf(r), k) =
                 ListNames(DeniedOrNone(last.p), k) \cup
                 ListNames(DeniedOrNone(last.q), k)
       /\ SameMembership(h.maps[h.perms[r2].AllowedRoles], AllowedOf(r))
       /\ SameMembership(h.maps[h.perms[r2].DeniedRoles], DeniedOf(r))
       /\ \A mode \in PermissionMode, actors \in ActorLists :
            HasPermission(h.maps, h.perms[r2], mode, actors) =
            HasPermission(maps, perms[r], mode, actors)

\* C7 witness: a merge of two different policies that both hold names for
\* the same action, each a name the other lacks.
C7_Witness ==
  /\ last.op = "Concat"
  /\ last.p # NilPermission
  /\ last.q # NilPermission
  /\ \E k \in ConcreteModes :
       /\ ListNames(AllowedOf(last.p), k) \ ListNames(AllowedOf(last.q), k) # {}
       /\ ListNames(AllowedOf(last.q), k) \ ListNames(AllowedOf(last.p), k) # {}
       /\ ListNames(AllowedOf(last.ret), k) =
            ListNames(AllowedOf(last.p), k) \cup ListNames(AllowedOf(last.q), k)

\* C8: Concat is non-destructive.  A Concat step leaves every existing
\* policy (scope, allowed map, denied map) as it was and gives the result
\* maps no existing policy holds; and an Allow or Deny step on one policy
\* changes no HasPermission decision of any other policy, in particular
\* between a Concat result and its operands (a policy whose struct and maps
\* are as before decides as before; the decisions are compared otherwise).
C8_ConcatNonDestructive ==
  [][ /\ last'.op = "Concat" =>
           /\ \A i \in 1..Len(perms) :
                /\ perms'[i] = perms[i]
                /\ maps'[perms[i].AllowedRoles] = maps[perms[i].AllowedRoles]
                /\ maps'[perms[i].DeniedRoles] = maps[perms[i].DeniedRoles]
           /\ perms'[last'.ret].AllowedRoles \notin MapRefs(perms)
           /\ perms'[last'.ret].DeniedRoles \notin MapRefs(perms)
           /\ perms'[last'.ret].AllowedRoles # perms'[last'.ret].DeniedRoles
      /\ last'.op \in {"Allow", "Deny"} =>
           \A y \in 1..Len(perms) :
             y # last'.p =>
               \/ /\ perms'[y] = perms[y]
                  /\ maps'[perms[y].AllowedRoles] = maps[perms[y].AllowedRoles]
                  /\ maps'[perms[y].DeniedRoles] = maps[perms[y].DeniedRoles]
               \/ \A mode \in PermissionMode, actors \in ActorLists :
                    HasPermission(maps', perms'[y], mode, actors) =
                    HasPermission(maps, perms[y], mode, actors) ]_vars

\* C8 witness: after a merge of a policy with rules, Allow on the result has
\* changed a decision of the result while its operand still holds its rules.
C8_Witness ==
  /\ last.op = "Allow"
  /\ last.p > 2
  /\ last.roles # <<>>
  /\ \E y \in 1..2 :
       /\ DOMAIN AllowedOf(y) # {}
       /\ \E mode \in ConcreteModes, actors \in ActorLists :
            HasPermission(maps, perms[y], mode, actors) #
            HasPermission(maps, perms[last.p], mode, actors)

\* C9: the scope of a Concat result is the receiver's when the receiver is
\* not nil, else the argument's when that is not nil, else Global; Allow and
\* Deny change no policy's scope.
C9_ScopeAttribution ==
  [][ /\ last'.op = "Concat" =>
           perms'[last'.ret].Role =
             IF last'.p # NilPermission THEN perms[last'.p].Role
             ELSE IF last'.q # NilPermission THEN perms[last'.q].Role
             ELSE Global
      /\ last'.op \in {"Allow", "Deny"} =>
           /\ Len(perms') = Len(perms)
           /\ \A i \in 1..Len(perms) : perms'[i].Role = perms[i].Role ]_vars

\* C9 witness: a merge whose receiver and argument have different scopes
\* took the receiver's.
C9_Witness ==
  /\ last.op = "Concat"
  /\ last.p # NilPermission
  /\ last.q # NilPermission
  /\ perms[last.p].Role # perms[last.q].Role
  /\ perms[last.ret].Role = perms[last.p].Role

\* C10: malformed actors fail closed.  A HasPermission call whose actor list
\* holds a value that is neither a string nor a Roler returns false for
\* every policy and action; every call returns true or false and leaves all
\* policies as they were.
C10_MalformedFailsClosed ==
  [][ last'.op = "HasPermission" =>
        /\ last'.ret \in BOOLEAN
        /\ perms' = perms
        /\ maps' = maps
        /\ ~WellFormed(last'.actors) => last'.ret = FALSE ]_vars

\* C10 witness: a completely empty policy refuses a list that holds a
\* well-formed actor next to a malformed one.
C10_Witness ==
  /\ Decided
  /\ DOMAIN AllowedOf(last.p) = {}
  /\ DOMAIN DeniedOf(last.p) = {}
  /\ ~WellFormed(last.actors)
  /\ \E i \in 1..Len(last.actors) : last.actors[i].kind = "string"
  /\ last.ret = FALSE

\* C11: the aggregate action crud is not evaluable.  For every reachable
\* policy and every actor list, HasPermission(crud, actors) is rejected or
\* no match: it never returns true.
C11_CrudNeverPermitted ==
  (Decided /\ last.mode = CRUD) => last.ret # TRUE

\* C12: Resource.HasPermission returns true for every action and context
\* when the resource is nil or has no Permission; otherwise, with a context,
\* it returns what the policy decides for the context's roles taken as
\* role-name strings, so it never permits a concrete action whose denied
\* list matches the context's roles.
C12_ResourceDelegates ==
  last.op = "Resource.HasPermission" =>
    IF last.res.nil \/ last.res.Permission = NilPermission
    THEN last.ret = TRUE
    ELSE ~last.context.nil =>
           /\ last.ret =
                HasPermission(maps, perms[last.res.Permission], last.mode,
                              [i \in 1..Len(last.context.Roles) |->
                                 StringActor(last.context.Roles[i])])
           /\ (/\ last.mode \in ConcreteModes
               /\ Matches(ListNames(DeniedOf(last.res.Permission), last.mode),
                          Names(last.context.Roles)))
              => last.ret = FALSE

\* C12 witness: a resource whose policy allows and denies the action for the
\* context's roles has refused it.
C12_Witness ==
  /\ last.op = "Resource.HasPermission"
  /\ ~last.res.nil
  /\ last.res.Permission # NilPermission
  /\ ~last.context.nil
  /\ last.mode \in ConcreteModes
  /\ Names(last.context.Roles) \cap
       ListNames(DeniedOf(last.res.Permission), last.mode) # {}
  /\ Names(last.context.Roles) \cap
       ListNames(AllowedOf(last.res.Permission), last.mode) # {}
  /\ last.ret = FALSE

\* C13: Allow(crud, r) is not atomic with respect to HasPermission.  It is
\* applied as the per-action updates create, update, read, delete, in that
\* order.  A HasPermission call that runs between them, on a policy that had
\* no Allow entry when the call began, sees the intermediate policy: for a
\* concrete action that is not denied it returns true before the first
\* update, and after it true only for actions already updated (and actors
\* the roles match), so false for an action not yet updated; once the call
\* has returned, every role of r is permitted again on all four actions it
\* is not denied on.
C13_AllowCrudNotAtomic ==
  /\ (inflight.op = "Allow" /\ inflight.crud) =>
       \E k \in 1..4 : inflight.todo = SubSeq(<<Create, Update, Read, Delete>>, k, 4)
  /\ (/\ Decided
      /\ inflight.op = "Allow"
      /\ inflight.crud
      /\ inflight.fresh
      /\ last.p = inflight.p
      /\ last.mode \in ConcreteModes
      /\ WellFormed(last.actors)
      /\ ~Matches(ListNames(DeniedOf(last.p), last.mode),
                  HeldNames(last.actors)))
     => LET done == ConcreteModes \ Names(inflight.todo)
        IN last.ret = IF done = {} THEN TRUE
                      ELSE /\ last.mode \in done
                           /\ Matches(Names(inflight.roles),
                                      HeldNames(last.actors))
  /\ (last.op = "Allow" /\ last.mode = CRUD /\ inflight = NoWrite) =>
       \A mode \in ConcreteModes, i \in 1..Len(last.roles) :
         \/ Matches(ListNames(DeniedOf(last.p), mode), {last.roles[i]})
         \/ HasPermission(maps, perms[last.p], mode,
                          <<StringActor(last.roles[i])>>)

\* C13 witness: during Allow(crud, r) on a policy without Allow entries, a
\* HasPermission call for delete and a role of r, not denied, returned false
\* after the first update and before the last.
C13_Witness ==
  /\ Decided
  /\ inflight.op = "Allow"
  /\ inflight.crud
  /\ inflight.fresh
  /\ last.p = inflight.p
  /\ last.mode = Delete
  /\ Len(inflight.todo) \in 1..3
  /\ DOMAIN DeniedOf(last.p) = {}
  /\ \E i \in 1..Len(inflight.roles) :
       last.actors = <<StringActor(inflight.roles[i])>>
  /\ last.ret = FALSE

====
